---- MODULE Spec2Model ----
(***************************************************************************)
(* mozci: the trigger-objective decision procedure of mozci/mozci.py       *)
(* (_determine_trigger_objective, trigger_job, trigger_range) together     *)
(* with the buildapi helpers it calls (valid_revision, query_job_status,   *)
(* query_jobs_schedule, make_request).                                     *)
(*                                                                         *)
(* Python values are represented as follows:                               *)
(*   - a job is a record; a missing "status" key is has_status = FALSE,    *)
(*     a status of None is the empty tuple and a status n is <<n>>;        *)
(*   - the trigger (a builder name or None) is a string, None is "None";   *)
(*   - a file list is a tuple of URLs, files = None is <<"None">>.         *)
(***************************************************************************)
EXTENDS Integers, Sequences, FiniteSets, TLC

VARIABLES
    jobs,       \* the CI service: revision -> the job list it answers with
    dontbuild,  \* the revisions whose first changeset says DONTBUILD
    reachable,  \* the artifact URLs that answer a probe
    objective,  \* the last call of _determine_trigger_objective and its result
    tj,         \* the last call of trigger_job and its result
    tr,         \* trigger_range: its arguments and its position in the loop
    repositories_file,  \* repositories.txt, the cache of the repository catalog
    branches,   \* the repository catalog the service answers with
    qrn         \* the last call of query_repo_name_from_buildername

repovars == <<repositories_file, branches, qrn>>

vars == <<jobs, dontbuild, reachable, objective, tj, tr, repositories_file, branches, qrn>>

(***************************************************************************)
(* Bounds of the model.                                                    *)
(***************************************************************************)
MaxJobs == 2
MaxServiceJobs == 2
MaxTimes == 2

(***************************************************************************)
(* buildapi.py: status constants.                                          *)
(***************************************************************************)
PENDING == -3
RUNNING == -2
UNKNOWN == -1
SUCCESS == 0
WARNING == 1
FAILURE == 2
SKIPPED == 3
EXCEPTION == 4
RETRY == 5
CANCELLED == 6

\* status codes of a trigger request: accepted, authentication failure
ACCEPTED == 202
UNAUTHORIZED == 401

None == "None"
NoneStatus == <<>>
NoFiles == <<"None">>
Absent == "absent"

(***************************************************************************)
(* The universe of the model: revisions, artifact URLs, builder names.     *)
(* "test" is a test builder whose upstream build builder is "build";       *)
(* "orphan" is a known builder whose upstream name is not in the catalog;  *)
(* "bogus" is not a known builder.                                         *)
(***************************************************************************)
Revs == {"r1", "r2"}
Urls == {"u1", "u2"}
\* what the service may answer a POST with; 500 stands for every answer that
\* is neither accepted nor an authentication failure
Codes == {ACCEPTED, 500, UNAUTHORIZED}

RECURSIVE SeqsUpTo(_, _)
SeqsUpTo(S, n) ==
    IF n = 0 THEN {<<>>}
    ELSE LET shorter == SeqsUpTo(S, n - 1)
         IN  shorter \cup {Append(s, x) : s \in {t \in shorter : Len(t) = n - 1}, x \in S}

(***************************************************************************)
(* allthethings.list_builders and platforms.determine_upstream_builder     *)
(* are outside the sources at hand; they are the builder catalog and the   *)
(* test-builder -> build-builder table.                                    *)
(***************************************************************************)
query_builders == {"test", "build", "orphan"}

determine_upstream_builder(buildername) ==
    IF buildername = "test" THEN "build"
    ELSE IF buildername = "build" THEN "build"
    ELSE "ghost"

valid_builder(buildername) == buildername \in query_builders

(***************************************************************************)
(* utils.misc._all_urls_reachable: every URL answers the probe.            *)
(***************************************************************************)
_all_urls_reachable(files, up) == \A i \in 1..Len(files) : files[i] \in up

(***************************************************************************)
(* Job records as self-serve returns them, with what                       *)
(* buildjson.query_job_data answers for the job's first request (detail).  *)
(***************************************************************************)
Detail(data, properties, packageUrl, testsUrl) ==
    [data |-> data, properties |-> properties,
     packageUrl |-> packageUrl, testsUrl |-> testsUrl]

NoDetail == Detail(FALSE, FALSE, Absent, Absent)

Job(buildername, has_status, status, has_endtime, detail) ==
    [buildername |-> buildername, has_status |-> has_status, status |-> status,
     has_endtime |-> has_endtime, detail |-> detail]

Details ==
    {NoDetail, Detail(TRUE, FALSE, Absent, Absent)}
    \cup {Detail(TRUE, TRUE, p, t) : p \in Urls \cup {Absent}, t \in Urls \cup {Absent}}

\* job.get("status")
JobGetStatus(job) == IF job.has_status THEN job.status ELSE NoneStatus

(***************************************************************************)
(* mozci.py: _matching_jobs                                                *)
(***************************************************************************)
_matching_jobs(buildername, all_jobs) ==
    SelectSeq(all_jobs, LAMBDA j : j.buildername = buildername)

(***************************************************************************)
(* buildapi.py: valid_revision, query_jobs_schedule                        *)
(***************************************************************************)
\* a check that does not read the DONTBUILD mark
valid_revision_unmarked(revision, marked) == TRUE

valid_revision(revision, marked) == revision \notin marked

\* raised = TRUE stands for BuildapiException
query_jobs(revision, marked, service) ==
    IF ~valid_revision(revision, marked)
    THEN [raised |-> TRUE, jobs |-> <<>>]
    ELSE [raised |-> FALSE, jobs |-> service[revision]]

(***************************************************************************)
(* mozci.py: _find_files                                                   *)
(***************************************************************************)
\* raised names the exception, "" when the call returns
_find_files(job) ==
    LET d == job.detail
    IN  IF ~d.data THEN [raised |-> "AssertionError", files |-> <<>>]
        ELSE IF ~d.properties THEN [raised |-> "Exception", files |-> <<>>]
        ELSE [raised |-> "",
              files |-> (IF d.packageUrl # Absent THEN <<d.packageUrl>> ELSE <<>>)
                        \o (IF d.testsUrl # Absent THEN <<d.testsUrl>> ELSE <<>>)]

(***************************************************************************)
(* mozci.py: the scan of _determine_trigger_objective (lines 65-84).       *)
(* The result is the index of the job the loop broke on and its kind, or   *)
(* kind "none" when the loop ran to the end.                               *)
(***************************************************************************)
StopsOnAnyUnsuccessful(status) == status # <<SUCCESS>>

StopsOnRunning(status) == status = NoneStatus
StopsOnSuccess(status) == status = <<SUCCESS>>

\* a scan that lets a successful job win over a running one met before it
ScanJobsPreferSuccess(matching_jobs, i) ==
    LET succ == {k \in i..Len(matching_jobs) :
                     JobGetStatus(matching_jobs[k]) = <<SUCCESS>>}
        run == {k \in i..Len(matching_jobs) :
                     JobGetStatus(matching_jobs[k]) = NoneStatus}
    IN  IF succ # {}
        THEN [kind |-> "successful", at |-> CHOOSE k \in succ : \A m \in succ : k <= m]
        ELSE IF run # {}
        THEN [kind |-> "running", at |-> CHOOSE k \in run : \A m \in run : k <= m]
        ELSE [kind |-> "none", at |-> 0]

RECURSIVE ScanJobs(_, _)
ScanJobs(matching_jobs, i) ==
    IF i > Len(matching_jobs) THEN [kind |-> "none", at |-> 0]
    ELSE LET status == JobGetStatus(matching_jobs[i])
         IN  IF StopsOnRunning(status) THEN [kind |-> "running", at |-> i]
             ELSE IF StopsOnSuccess(status) THEN [kind |-> "successful", at |-> i]
             ELSE ScanJobs(matching_jobs, i + 1)

(***************************************************************************)
(* mozci.py: _determine_trigger_objective                                  *)
(***************************************************************************)
Returned(trigger, files) == [outcome |-> "returned", trigger |-> trigger, files |-> files]
Raised(what) == [outcome |-> what, trigger |-> None, files |-> NoFiles]

FilesWhenUnreachable == <<>>

\* an objective that does not look at what the probe answered
SuccessfulObjectiveUnprobed(buildername, build_buildername, files, up) ==
    Returned(buildername, files)

SuccessfulObjective(buildername, build_buildername, files, up) ==
    IF ~_all_urls_reachable(files, up)
    THEN Returned(build_buildername, FilesWhenUnreachable)
    ELSE Returned(buildername, files)

_determine_trigger_objective(revision, buildername, marked, service, up) ==
    LET build_buildername == determine_upstream_builder(buildername)
        all_jobs == query_jobs(revision, marked, service)
        matching_jobs == _matching_jobs(build_buildername, all_jobs.jobs)
        scan == ScanJobs(matching_jobs, 1)
    IN  IF ~valid_builder(build_buildername) THEN Raised("AssertionError")
        ELSE IF all_jobs.raised THEN Raised("BuildapiException")
        ELSE IF Len(matching_jobs) = 0 THEN Returned(build_buildername, NoFiles)
        ELSE IF scan.kind = "successful"
             THEN LET found == _find_files(matching_jobs[scan.at])
                  IN  IF found.raised # "" THEN Raised(found.raised)
                      ELSE SuccessfulObjective(buildername, build_buildername,
                                               found.files, up)
        ELSE IF scan.kind = "running" THEN Returned(None, NoFiles)
        ELSE Returned(build_buildername, NoFiles)

(***************************************************************************)
(* buildapi.py: make_request, called `times` times by the loop of          *)
(* trigger_job (lines 297-299).  codes[i] is the status code the service   *)
(* answers the i-th POST with; a 401 fails make_request's assertion, and   *)
(* the exception leaves the loop and trigger_job.                          *)
(* sent is the codes of the POSTs issued, list_of_requests the responses   *)
(* appended so far.                                                        *)
(***************************************************************************)
\* a request that fails on every answer but 202
make_request_strict(code) ==
    IF code # ACCEPTED THEN [raised |-> "AssertionError", req |-> code]
    ELSE [raised |-> "", req |-> code]

make_request(code) ==
    IF code = UNAUTHORIZED THEN [raised |-> "AssertionError", req |-> code]
    ELSE [raised |-> "", req |-> code]

RECURSIVE PostLoop(_, _, _, _)
PostLoop(times, codes, i, list_of_requests) ==
    IF i > times
    THEN [raised |-> "", sent |-> list_of_requests, list_of_requests |-> list_of_requests]
    ELSE LET r == make_request(codes[i])
         IN  IF r.raised # ""
             THEN [raised |-> r.raised, sent |-> Append(list_of_requests, r.req),
                   list_of_requests |-> list_of_requests]
             ELSE PostLoop(times, codes, i + 1, Append(list_of_requests, r.req))

(***************************************************************************)
(* mozci.py: trigger_job.  Python's truth of a file list: None and the     *)
(* empty list are false.                                                   *)
(***************************************************************************)
Truthy(files) == files # NoFiles /\ files # <<>>

NotCalled ==
    [called |-> FALSE, revision |-> None, buildername |-> None, all_jobs |-> <<>>,
     outcome |-> None, trigger |-> None, files |-> NoFiles]

ObjectiveCall(revision, buildername, marked, service, up) ==
    LET o == _determine_trigger_objective(revision, buildername, marked, service, up)
    IN  [called |-> TRUE, revision |-> revision, buildername |-> buildername,
         all_jobs |-> query_jobs(revision, marked, service).jobs,
         outcome |-> o.outcome, trigger |-> o.trigger, files |-> o.files]

\* what trigger_job decides to trigger (lines 265-277)
\* explicit files that are dropped when the probe fails
ExplicitFilesProbed(buildername, files, up) ==
    IF _all_urls_reachable(files, up)
    THEN [outcome |-> "returned", trigger |-> buildername, files |-> files]
    ELSE [outcome |-> "returned", trigger |-> None, files |-> files]

ExplicitFiles(buildername, files, up) ==
    LET probed == _all_urls_reachable(files, up)
    IN  [outcome |-> "returned", trigger |-> buildername, files |-> files]

UsesExplicitFiles(files) == Truthy(files)

\* requests that are issued in a dry run too
IssueRequestsAlways(times, dry_run, codes) == PostLoop(times, codes, 1, <<>>)

\* the requests of lines 297-306
IssueRequests(times, dry_run, codes) ==
    IF ~dry_run THEN PostLoop(times, codes, 1, <<>>)
    ELSE [raised |-> "", sent |-> <<>>, list_of_requests |-> <<>>]

TjResult(outcome, validated, obj, trigger, files, sent, list_of_requests) ==
    [outcome |-> outcome, validated |-> validated, objective |-> obj,
     trigger |-> trigger, files |-> files, sent |-> sent,
     list_of_requests |-> list_of_requests]

trigger_job(revision, buildername, times, files, dry_run, codes, marked, service, up) ==
    IF ~valid_revision(revision, marked)
    THEN TjResult("returned", FALSE, NotCalled, None, files, <<>>, <<>>)
    ELSE IF ~valid_builder(buildername)
    THEN TjResult("exit", TRUE, NotCalled, None, files, <<>>, <<>>)
    ELSE LET obj == IF UsesExplicitFiles(files) THEN NotCalled
                    ELSE ObjectiveCall(revision, buildername, marked, service, up)
             dec == IF UsesExplicitFiles(files) THEN ExplicitFiles(buildername, files, up)
                    ELSE [outcome |-> obj.outcome, trigger |-> obj.trigger,
                          files |-> obj.files]
         IN  IF dec.outcome # "returned"
             THEN TjResult(dec.outcome, TRUE, obj, None, files, <<>>, <<>>)
             ELSE IF dec.trigger # None
             THEN LET io == IssueRequests(times, dry_run, codes)
                  IN  TjResult(IF io.raised # "" THEN io.raised ELSE "returned",
                               TRUE, obj, dec.trigger, dec.files, io.sent,
                               IF io.raised # "" THEN <<>> ELSE io.list_of_requests)
             ELSE TjResult("returned", TRUE, obj, dec.trigger, dec.files, <<>>, <<>>)

(***************************************************************************)
(* The CI service: every POST it accepts (202) becomes a job of the        *)
(* triggered builder on that revision, without a status yet.               *)
(***************************************************************************)
RECURSIVE Scheduled(_, _, _)
Scheduled(job_list, builder, sent) ==
    IF sent = <<>> THEN job_list
    ELSE Scheduled(IF Head(sent) = ACCEPTED
                   THEN Append(job_list, Job(builder, FALSE, NoneStatus, FALSE, NoDetail))
                   ELSE job_list,
                   builder, Tail(sent))

ServiceAfter(service, revision, res) ==
    IF res.sent = <<>> THEN service
    ELSE [service EXCEPT ![revision] = Scheduled(service[revision], res.trigger, res.sent)]

(***************************************************************************)
(* buildapi.py: query_job_status                                           *)
(***************************************************************************)
KnownStatuses == {SUCCESS, WARNING, FAILURE, EXCEPTION, RETRY, CANCELLED}

query_job_status(job) ==
    IF ~job.has_status THEN [raised |-> "", status |-> PENDING]
    ELSE IF job.status = NoneStatus
         THEN IF job.has_endtime THEN [raised |-> "", status |-> RUNNING]
              ELSE [raised |-> "", status |-> UNKNOWN]
    ELSE IF job.status[1] \in KnownStatuses
         THEN [raised |-> "", status |-> job.status[1]]
    ELSE [raised |-> "Exception", status |-> UNKNOWN]

(***************************************************************************)
(* mozci.py: trigger_range, the counting loop (lines 329-342)              *)
(***************************************************************************)
IsPending(status) == status = PENDING
IsRunning(status) == status = RUNNING
IsSuccessful(status) == status = SUCCESS

RECURSIVE CountJobs(_, _, _, _, _)
CountJobs(matching_jobs, i, pending_jobs, running_jobs, successful_jobs) ==
    IF i > Len(matching_jobs)
    THEN [raised |-> "", potential_jobs |-> pending_jobs + running_jobs + successful_jobs]
    ELSE LET s == query_job_status(matching_jobs[i])
         IN  IF s.raised # "" THEN [raised |-> s.raised, potential_jobs |-> 0]
             ELSE CountJobs(matching_jobs, i + 1,
                            pending_jobs + (IF IsPending(s.status) THEN 1 ELSE 0),
                            running_jobs + (IF IsRunning(s.status) THEN 1 ELSE 0),
                            successful_jobs + (IF IsSuccessful(s.status) THEN 1 ELSE 0))

(***************************************************************************)
(* mozci.py: trigger_range, the body of the loop over the revisions        *)
(* (lines 320-362).  outcome is "ok" when the body ends and the loop goes  *)
(* on, otherwise the exception (or exit) that leaves trigger_range.        *)
(***************************************************************************)
Enough(potential_jobs, times) == potential_jobs >= times

\* a shortfall that forgets the jobs already there
ShortfallIgnoringJobs(times, potential_jobs) == times

Shortfall(times, potential_jobs) == times - potential_jobs

NoTjResult == TjResult(None, FALSE, NotCalled, None, NoFiles, <<>>, <<>>)

BodyResult(outcome, all_jobs, potential_jobs, called, requested, res) ==
    [outcome |-> outcome, all_jobs |-> all_jobs, potential_jobs |-> potential_jobs,
     called |-> called, requested |-> requested, res |-> res]

RangeBody(rev, buildername, times, dry_run, codes, marked, service, up) ==
    LET q == query_jobs(rev, marked, service)
        matching_jobs == _matching_jobs(buildername, q.jobs)
        c == CountJobs(matching_jobs, 1, 0, 0, 0)
    IN  IF q.raised THEN BodyResult("BuildapiException", <<>>, 0, FALSE, 0, NoTjResult)
        ELSE IF c.raised # ""
        THEN BodyResult(c.raised, q.jobs, c.potential_jobs, FALSE, 0, NoTjResult)
        ELSE IF Enough(c.potential_jobs, times)
        THEN BodyResult("ok", q.jobs, c.potential_jobs, FALSE, 0, NoTjResult)
        ELSE LET n == Shortfall(times, c.potential_jobs)
                 res == trigger_job(rev, buildername, n, NoFiles, dry_run, codes,
                                    marked, service, up)
             IN  BodyResult(IF res.outcome = "returned" THEN "ok" ELSE res.outcome,
                            q.jobs, c.potential_jobs, TRUE, n, res)

(***************************************************************************)
(* Repository and builder names are strings, kept as tuples of characters; *)
(* Python's `repo_name in buildername` is the substring test.              *)
(***************************************************************************)
Contains(buildername, repo_name) ==
    \E i \in 1..(Len(buildername) - Len(repo_name) + 1) :
        SubSeq(buildername, i, i + Len(repo_name) - 1) = repo_name

\* ret_val = None
NoRepo == <<"None">>

(***************************************************************************)
(* buildapi.py: query_repositories.  The file is [exists, content]; the    *)
(* catalog is the tuple of its repository names, in the order the          *)
(* dictionary yields them.                                                 *)
(***************************************************************************)
NoFile == [exists |-> FALSE, content |-> <<>>]

Clobbered(clobber, file) == IF clobber /\ file.exists THEN NoFile ELSE file

query_repositories(clobber, file, latest) ==
    LET kept == Clobbered(clobber, file)
    IN  IF kept.exists
        THEN [repositories |-> kept.content, file |-> kept]
        ELSE [repositories |-> latest, file |-> [exists |-> TRUE, content |-> latest]]

(***************************************************************************)
(* mozci.py: query_repo_name_from_buildername                              *)
(***************************************************************************)
\* the loop of lines 172-175
RECURSIVE FirstRepoIn(_, _, _)
FirstRepoIn(repositories, buildername, i) ==
    IF i > Len(repositories) THEN NoRepo
    ELSE IF Contains(buildername, repositories[i]) THEN repositories[i]
    ELSE FirstRepoIn(repositories, buildername, i + 1)

\* ret_val after the call of line 180, whose result is not assigned
AfterRetry(ret_val, retried) == ret_val

RECURSIVE query_repo_name_from_buildername(_, _, _, _)
query_repo_name_from_buildername(buildername, clobber, file, latest) ==
    LET q == query_repositories(clobber, file, latest)
        found == FirstRepoIn(q.repositories, buildername, 1)
    IN  IF found = NoRepo /\ ~clobber
        THEN LET retried == query_repo_name_from_buildername(buildername, TRUE,
                                                             q.file, latest)
                 ret_val == AfterRetry(found, retried.ret_val)
             IN  IF retried.raised # "" \/ ret_val = NoRepo
                 THEN [raised |-> "Exception", ret_val |-> NoRepo, file |-> retried.file,
                       seen |-> q.repositories]
                 ELSE [raised |-> "", ret_val |-> ret_val, file |-> retried.file,
                       seen |-> q.repositories]
        ELSE IF found = NoRepo
        THEN [raised |-> "Exception", ret_val |-> NoRepo, file |-> q.file,
              seen |-> q.repositories]
        ELSE [raised |-> "", ret_val |-> found, file |-> q.file,
              seen |-> q.repositories]

NoQuery ==
    [called |-> FALSE, buildername |-> <<>>, clobber |-> FALSE, seen |-> <<>>, latest |-> <<>>,
     raised |-> "", ret_val |-> NoRepo]

\* the repository catalog is not in use
NoRepositories ==
    /\ repositories_file = NoFile
    /\ branches = <<>>
    /\ qrn = NoQuery

(***************************************************************************)
(* Inputs.                                                                 *)
(***************************************************************************)
\* jobs of the build builder in every state the objective distinguishes,
\* and a job of another builder
ObjectiveJobKinds ==
    {Job("build", FALSE, NoneStatus, FALSE, NoDetail),
     Job("build", TRUE, NoneStatus, FALSE, NoDetail),
     Job("build", TRUE, <<FAILURE>>, TRUE, NoDetail),
     Job("build", TRUE, <<CANCELLED>>, TRUE, NoDetail),
     Job("test", TRUE, <<SUCCESS>>, TRUE, NoDetail)}
    \cup {Job("build", TRUE, <<SUCCESS>>, TRUE, d) : d \in Details}

\* jobs of the requested builder in every state query_job_status
\* distinguishes, and jobs of its build builder
RangeJobKinds ==
    {Job("test", FALSE, NoneStatus, FALSE, NoDetail),
     Job("test", TRUE, NoneStatus, TRUE, NoDetail),
     Job("test", TRUE, NoneStatus, FALSE, NoDetail),
     Job("test", TRUE, <<SUCCESS>>, TRUE, NoDetail),
     Job("test", TRUE, <<SKIPPED>>, TRUE, NoDetail),
     Job("build", FALSE, NoneStatus, FALSE, NoDetail),
     Job("build", TRUE, <<SUCCESS>>, TRUE, Detail(TRUE, TRUE, "u1", "u2"))}

RequestedBuilders == {"test", "bogus"}
FileLists == {NoFiles, <<>>, <<"u1", "u2">>}
RevisionLists == {<<"r1">>, <<"r1", "r2">>, <<"r2", "r1">>}

NoCall ==
    [called |-> FALSE, caller |-> None, revision |-> None, buildername |-> None,
     times |-> 0, files |-> NoFiles, dry_run |-> FALSE, res |-> NoTjResult]

NoRange ==
    [pc |-> "idle", buildername |-> None, revisions |-> <<>>, times |-> 0,
     dry_run |-> FALSE, idx |-> 0, queried |-> {}, rev |-> None,
     body |-> BodyResult(None, <<>>, 0, FALSE, 0, NoTjResult)]

Idle == ~objective.called /\ ~tj.called /\ tr.pc = "idle"

(***************************************************************************)
(* _determine_trigger_objective on its own, over job lists of the build    *)
(* builder.                                                                *)
(***************************************************************************)
InitObjective ==
    /\ \E r \in Revs, l \in SeqsUpTo(ObjectiveJobKinds, MaxJobs) :
          jobs = [x \in Revs |-> IF x = r THEN l ELSE <<>>]
    /\ dontbuild \in SUBSET Revs
    /\ reachable \in SUBSET Urls
    /\ objective = NotCalled
    /\ tj = NoCall
    /\ tr = NoRange
    /\ NoRepositories

DetermineObjective(revision, buildername) ==
    /\ Idle
    /\ objective' = ObjectiveCall(revision, buildername, dontbuild, jobs, reachable)
    /\ UNCHANGED <<jobs, dontbuild, reachable, tj, tr, repovars>>

NextObjective ==
    \E revision \in Revs, buildername \in {"test", "orphan"} :
        DetermineObjective(revision, buildername)

SpecObjective == InitObjective /\ [][NextObjective]_vars

(***************************************************************************)
(* trigger_job and trigger_range against the CI service.                   *)
(***************************************************************************)
Init ==
    /\ \E l \in SeqsUpTo(RangeJobKinds, MaxServiceJobs) :
          jobs = [x \in Revs |-> IF x = "r1" THEN l ELSE <<>>]
    /\ dontbuild \in SUBSET Revs
    /\ reachable \in {{}, Urls}
    /\ objective = NotCalled
    /\ tj = NoCall
    /\ tr = NoRange
    /\ NoRepositories

TriggerJobCall(revision, buildername, times, files, dry_run, codes) ==
    /\ Idle
    /\ \E res \in {trigger_job(revision, buildername, times, files, dry_run, codes,
                                dontbuild, jobs, reachable)} :
           /\ tj' = [called |-> TRUE, caller |-> "user", revision |-> revision,
                     buildername |-> buildername, times |-> times, files |-> files,
                     dry_run |-> dry_run, res |-> res]
           /\ objective' = res.objective
           /\ jobs' = ServiceAfter(jobs, revision, res)
    /\ UNCHANGED <<dontbuild, reachable, tr, repovars>>

TriggerRangeCall(buildername, revisions, times, dry_run) ==
    /\ Idle
    /\ tr' = [NoRange EXCEPT !.pc = "loop", !.buildername = buildername,
                             !.revisions = revisions, !.times = times,
                             !.dry_run = dry_run, !.idx = 1]
    /\ UNCHANGED <<jobs, dontbuild, reachable, objective, tj, repovars>>

RangeIteration(codes) ==
    /\ tr.pc = "loop"
    /\ tr.idx <= Len(tr.revisions)
    /\ \E rev \in {tr.revisions[tr.idx]} :
       \E body \in {RangeBody(rev, tr.buildername, tr.times, tr.dry_run, codes,
                              dontbuild, jobs, reachable)} :
           /\ tr' = [tr EXCEPT !.pc = IF body.outcome = "ok" THEN "loop"
                                      ELSE IF body.outcome = "exit" THEN "exited"
                                      ELSE "raised",
                               !.idx = IF body.outcome = "ok" THEN tr.idx + 1 ELSE tr.idx,
                               !.queried = IF body.outcome = "BuildapiException"
                                           THEN tr.queried ELSE tr.queried \cup {rev},
                               !.rev = rev,
                               !.body = body]
           /\ tj' = IF body.called
                    THEN [called |-> TRUE, caller |-> "range", revision |-> rev,
                          buildername |-> tr.buildername, times |-> body.requested,
                          files |-> NoFiles, dry_run |-> tr.dry_run, res |-> body.res]
                    ELSE tj
           /\ objective' = IF body.called THEN body.res.objective ELSE objective
           /\ jobs' = IF body.called THEN ServiceAfter(jobs, rev, body.res) ELSE jobs
    /\ UNCHANGED <<dontbuild, reachable, repovars>>

RangeReturn ==
    /\ tr.pc = "loop"
    /\ tr.idx > Len(tr.revisions)
    /\ tr' = [tr EXCEPT !.pc = "returned"]
    /\ UNCHANGED <<jobs, dontbuild, reachable, objective, tj, repovars>>

UserCallsTriggerJob ==
    /\ Idle
    /\ \E revision \in Revs, buildername \in RequestedBuilders, times \in 1..MaxTimes,
          files \in FileLists, dry_run \in BOOLEAN :
          \E codes \in [1..times -> Codes] :
              TriggerJobCall(revision, buildername, times, files, dry_run, codes)

UserCallsTriggerRange ==
    /\ Idle
    /\ \E buildername \in RequestedBuilders, revisions \in RevisionLists,
          times \in 1..MaxTimes, dry_run \in BOOLEAN :
          TriggerRangeCall(buildername, revisions, times, dry_run)

RangeStep ==
    /\ tr.pc = "loop"
    /\ \E codes \in [1..tr.times -> Codes] : RangeIteration(codes)

Next ==
    \/ UserCallsTriggerJob
    \/ UserCallsTriggerRange
    \/ RangeStep
    \/ RangeReturn

Spec == Init /\ [][Next]_vars

(***************************************************************************)
(* Properties of _determine_trigger_objective (SpecObjective).             *)
(* The definitions below read the last call from `objective`: its          *)
(* arguments, the job list query_jobs returned to it and its result.       *)
(***************************************************************************)
ObjBuild == determine_upstream_builder(objective.buildername)

\* the call got a job list: the upstream builder is known and the revision
\* is schedulable
ObjQueried ==
    /\ objective.called
    /\ ObjBuild \in query_builders
    /\ objective.revision \notin dontbuild

ObjMatching == SelectSeq(objective.all_jobs, LAMBDA j : j.buildername = ObjBuild)

StatusAbsent(job) == ~job.has_status \/ job.status = <<>>
StatusSuccess(job) == job.has_status /\ job.status = <<0>>

\* the positions of the matching jobs whose status is absent or Success
Deciding == {i \in 1..Len(ObjMatching) :
                StatusAbsent(ObjMatching[i]) \/ StatusSuccess(ObjMatching[i])}

Earliest == CHOOSE i \in Deciding : \A k \in Deciding : i <= k

NoFilesReturned == objective.files = <<>> \/ objective.files = NoFiles

\* C1: when no matching build job has an absent status or status Success
\* (no matching job at all, or only jobs that ended otherwise), the
\* objective is the build builder, with no files.
C1_NoLiveBuildTriggersBuild ==
    (ObjQueried /\ Deciding = {})
        => /\ objective.outcome = "returned"
           /\ objective.trigger = ObjBuild
           /\ NoFilesReturned

C1_Witness ==
    /\ ObjQueried
    /\ Len(ObjMatching) = 2
    /\ Deciding = {}
    /\ objective.trigger = "build"

\* C2: the earliest matching job whose status is absent or Success decides;
\* when its status is absent the objective is to trigger nothing, whatever
\* the jobs after it are.
C2_EarliestRunningWins ==
    (ObjQueried /\ Deciding # {} /\ StatusAbsent(ObjMatching[Earliest]))
        => /\ objective.outcome = "returned"
           /\ objective.trigger = None

C2_Witness ==
    /\ ObjQueried
    /\ Len(ObjMatching) = 2
    /\ StatusAbsent(ObjMatching[1])
    /\ StatusSuccess(ObjMatching[2])
    /\ ObjMatching[2].detail = Detail(TRUE, TRUE, "u1", "u2")
    /\ reachable = Urls
    /\ objective.trigger = None

\* the URLs _find_files extracts from a job whose detailed status has
\* properties
Extracted(job) ==
    (IF job.detail.packageUrl # Absent THEN <<job.detail.packageUrl>> ELSE <<>>)
    \o (IF job.detail.testsUrl # Absent THEN <<job.detail.testsUrl>> ELSE <<>>)

HasProperties(job) == job.detail.data /\ job.detail.properties

AllReachable(urls) == {urls[i] : i \in 1..Len(urls)} \subseteq reachable

\* the scan stopped on a successful job and its URLs were extracted
ObjOnSuccess ==
    /\ ObjQueried
    /\ Deciding # {}
    /\ StatusSuccess(ObjMatching[Earliest])
    /\ HasProperties(ObjMatching[Earliest])

\* C3: when the scan stops on a successful job, the objective is the requested
\* builder with that job's URLs exactly when every URL is reachable, and the
\* build builder with an empty file list when one is not.
C3_SuccessfulJobObjective ==
    ObjOnSuccess
        => LET urls == Extracted(ObjMatching[Earliest])
           IN  /\ objective.outcome = "returned"
               /\ (objective.trigger = objective.buildername /\ objective.files = urls)
                      <=> AllReachable(urls)
               /\ ~AllReachable(urls)
                      => (objective.trigger = ObjBuild /\ objective.files = <<>>)

C3_Witness ==
    /\ ObjOnSuccess
    /\ Earliest = 2
    /\ Extracted(ObjMatching[Earliest]) = <<"u1", "u2">>
    /\ reachable = {"u1"}
    /\ objective.trigger = "build"
    /\ objective.files = <<>>

\* C4: the requested builder is the objective only with both packageUrl and
\* testsUrl of the successful job in the returned files and both reachable;
\* a successful job lacking either makes the build builder the objective.
C4_BothArtifactsOrRebuild ==
    /\ (objective.called /\ objective.outcome = "returned"
            /\ objective.trigger = objective.buildername)
           => /\ ObjOnSuccess
              /\ ObjMatching[Earliest].detail.packageUrl \in reachable
              /\ ObjMatching[Earliest].detail.testsUrl \in reachable
              /\ Len(objective.files) = 2
              /\ objective.files[1] = ObjMatching[Earliest].detail.packageUrl
              /\ objective.files[2] = ObjMatching[Earliest].detail.testsUrl
    /\ (ObjOnSuccess
            /\ (ObjMatching[Earliest].detail.packageUrl = Absent
                   \/ ObjMatching[Earliest].detail.testsUrl = Absent))
           => (objective.outcome = "returned" /\ objective.trigger = ObjBuild)

(***************************************************************************)
(* Properties of trigger_range and trigger_job (Spec).                     *)
(* tr.rev and tr.body are the revision and the outcome of the last         *)
(* iteration of trigger_range; tj is the last call of trigger_job.         *)
(***************************************************************************)
IsPotential(job) ==
    \/ ~job.has_status
    \/ job.status = <<>> /\ job.has_endtime
    \/ job.status = <<0>>

\* the jobs of the requested builder that are pending, running or successful
\* in the job list the last iteration got
Potential ==
    Cardinality({i \in 1..Len(tr.body.all_jobs) :
                    /\ tr.body.all_jobs[i].buildername = tr.buildername
                    /\ IsPotential(tr.body.all_jobs[i])})

Iterated == tr.rev # None /\ tr.body.outcome # "BuildapiException"

\* C5: for a revision with `potential` pending, running or successful jobs of
\* the requested builder, trigger_range issues at most times - potential
\* requests, and none (trigger_job is not called) when potential >= times.
C5_AtMostShortfall ==
    Iterated
        => /\ Potential < tr.times => Len(tr.body.res.sent) <= tr.times - Potential
           /\ Potential >= tr.times => (~tr.body.called /\ tr.body.res.sent = <<>>)

C5_Witness ==
    /\ Iterated
    /\ tr.times = 2
    /\ Potential = 1
    /\ tr.body.called
    /\ Len(tr.body.res.sent) = 1

\* C6: a failure while handling one revision (the job query raises for a
\* revision that is not schedulable, a job carries an unexpected status)
\* does not keep trigger_range from the later revisions of its list.
C6_LaterRevisionsProcessed ==
    ~(/\ tr.pc = "raised"
      /\ tr.buildername \in query_builders
      /\ ~tr.body.called
      /\ tr.idx < Len(tr.revisions))

\* C7: trigger_job on a revision marked DONTBUILD returns an empty list
\* without validating the builder, computing an objective or issuing a
\* request, whatever its other arguments are.
C7_DontbuildReturnsEmpty ==
    (tj.called /\ tj.revision \in dontbuild)
        => /\ tj.res.outcome = "returned"
           /\ tj.res.list_of_requests = <<>>
           /\ ~tj.res.validated
           /\ ~tj.res.objective.called
           /\ tj.res.sent = <<>>

C7_Witness ==
    /\ tj.called
    /\ tj.revision \in dontbuild
    /\ tj.buildername = "bogus"
    /\ tj.files = <<"u1", "u2">>
    /\ ~tj.dry_run
    /\ tj.res.outcome = "returned"

\* C8: a dry run of trigger_job, called directly or by trigger_range, issues
\* no request, returns an empty list and leaves the jobs of the CI service
\* as they were.
C8_DryRunIssuesNothing ==
    [][(tj' # tj /\ tj'.dry_run)
          => /\ tj'.res.sent = <<>>
             /\ tj'.res.list_of_requests = <<>>
             /\ jobs' = jobs]_vars

C8_Witness ==
    /\ tj.called
    /\ tj.dry_run
    /\ tj.caller = "range"
    /\ tj.times = 2
    /\ tj.res.outcome = "returned"
    /\ tj.res.trigger = "test"
    /\ Truthy(tj.res.files)

Answered(code) == \E i \in 1..Len(tj.res.sent) : tj.res.sent[i] = code

\* C9: with a builder to trigger and no dry run, trigger_job issues exactly
\* `times` requests and returns their `times` receipts in the order of
\* issue, a receipt that is not 202 included, unless a request is answered
\* 401.
C9_TimesRequestsTimesReceipts ==
    (tj.called /\ tj.res.trigger # None /\ ~tj.dry_run /\ ~Answered(401))
        => /\ tj.res.outcome = "returned"
           /\ Len(tj.res.sent) = tj.times
           /\ tj.res.list_of_requests = tj.res.sent

C9_Witness ==
    /\ tj.called
    /\ ~tj.dry_run
    /\ tj.times = 2
    /\ tj.res.trigger # None
    /\ tj.res.sent = <<500, 202>>
    /\ tj.res.list_of_requests = <<500, 202>>

\* C10: with files passed by the caller (a list that is not empty), a valid
\* revision and a valid builder, trigger_job triggers the requested builder
\* with those files; the objective is not computed and an unreachable file
\* changes nothing.
C10_ExplicitFilesTrusted ==
    (/\ tj.called
     /\ tj.revision \notin dontbuild
     /\ tj.buildername \in query_builders
     /\ tj.files # NoFiles /\ tj.files # <<>>)
        => /\ tj.res.trigger = tj.buildername
           /\ tj.res.files = tj.files
           /\ ~tj.res.objective.called
           /\ ~objective.called
           /\ tj.res.outcome \in {"returned", "AssertionError"}
           /\ (~tj.dry_run /\ ~Answered(401)) => Len(tj.res.sent) = tj.times

C10_Witness ==
    /\ tj.called
    /\ tj.files = <<"u1", "u2">>
    /\ reachable = {}
    /\ ~tj.dry_run
    /\ tj.times = 2
    /\ tj.res.trigger = "test"
    /\ tj.res.sent = <<202, 202>>
    /\ \E i \in 1..Len(jobs[tj.revision]) :
          /\ jobs[tj.revision][i].buildername = "build"
          /\ ~jobs[tj.revision][i].has_status

(***************************************************************************)
(* Repeated calls of trigger_range with the same builder, revision and     *)
(* times, against a service whose jobs make progress: every accepted       *)
(* request is a job without a status, which later starts to run and then   *)
(* ends with a final status.                                               *)
(***************************************************************************)
MaxHistory == 3

RepeatRev == "r1"
RepeatBuilder == "test"

RepeatJobKinds ==
    {Job("test", FALSE, NoneStatus, FALSE, NoDetail),
     Job("test", TRUE, NoneStatus, TRUE, NoDetail),
     Job("test", TRUE, <<SUCCESS>>, TRUE, NoDetail),
     Job("test", TRUE, <<FAILURE>>, TRUE, NoDetail),
     Job("build", FALSE, NoneStatus, FALSE, NoDetail),
     Job("build", TRUE, <<FAILURE>>, TRUE, NoDetail),
     Job("build", TRUE, <<SUCCESS>>, TRUE, Detail(TRUE, TRUE, "u1", "u2"))}

\* the jobs of a builder that are pending, running or successful
PotentialOf(buildername, job_list) ==
    Cardinality({i \in 1..Len(job_list) :
                    job_list[i].buildername = buildername /\ IsPotential(job_list[i])})

InitRepeat ==
    /\ \E l \in SeqsUpTo(RepeatJobKinds, MaxServiceJobs) :
          jobs = [x \in Revs |-> IF x = RepeatRev THEN l ELSE <<>>]
    /\ dontbuild = {}
    /\ reachable \in {{}, Urls}
    /\ objective = NotCalled
    /\ tj = NoCall
    /\ tr = NoRange
    /\ NoRepositories

\* the first call: the revision has at most `times` jobs of the builder
FirstRangeCall ==
    /\ Idle
    /\ \E times \in 1..MaxTimes :
          /\ PotentialOf(RepeatBuilder, jobs[RepeatRev]) <= times
          /\ TriggerRangeCall(RepeatBuilder, <<RepeatRev>>, times, FALSE)

\* a later call, with the arguments of the first one
RangeCallAgain ==
    /\ tr.pc \in {"returned", "raised"}
    /\ Len(jobs[RepeatRev]) < MaxHistory
    /\ tr' = [tr EXCEPT !.pc = "loop", !.idx = 1]
    /\ UNCHANGED <<jobs, dontbuild, reachable, objective, tj, repovars>>

\* the service: a job without a status starts to run
JobStarts ==
    /\ \E i \in 1..Len(jobs[RepeatRev]) :
          /\ ~jobs[RepeatRev][i].has_status
          /\ jobs' = [jobs EXCEPT ![RepeatRev][i] =
                         Job(@.buildername, TRUE, NoneStatus, TRUE, NoDetail)]
    /\ UNCHANGED <<dontbuild, reachable, objective, tj, tr, repovars>>

\* the service: a job ends; a successful build has both artifacts
JobFinishes ==
    /\ \E i \in 1..Len(jobs[RepeatRev]), s \in {SUCCESS, FAILURE} :
          /\ JobGetStatus(jobs[RepeatRev][i]) = NoneStatus
          /\ jobs' = [jobs EXCEPT ![RepeatRev][i] =
                         Job(@.buildername, TRUE, <<s>>, TRUE,
                             IF @.buildername = "build" /\ s = SUCCESS
                             THEN Detail(TRUE, TRUE, "u1", "u2") ELSE NoDetail)]
    /\ UNCHANGED <<dontbuild, reachable, objective, tj, tr, repovars>>

NextRepeat ==
    \/ FirstRangeCall
    \/ RangeCallAgain
    \/ RangeStep
    \/ RangeReturn
    \/ JobStarts
    \/ JobFinishes

SpecRepeat == InitRepeat /\ [][NextRepeat]_vars

\* a request for the upstream build builder has been issued by the last
\* call of trigger_job
BuildRequested ==
    /\ tj.called
    /\ tj.res.trigger = determine_upstream_builder(tr.buildername)
    /\ tj.res.sent # <<>>

\* the job list that call of trigger_job saw has a build job without status
BuildInFlight ==
    \E i \in 1..Len(tj.res.objective.all_jobs) :
        /\ tj.res.objective.all_jobs[i].buildername
               = determine_upstream_builder(tr.buildername)
        /\ StatusAbsent(tj.res.objective.all_jobs[i])

\* the first half of C11 on its own: the pending, running or successful jobs
\* of the requested builder never exceed times
RequestedJobsWithinTimes ==
    tr.pc # "idle" => PotentialOf(tr.buildername, jobs[RepeatRev]) <= tr.times

\* C11: over repeated calls of trigger_range, the pending, running or
\* successful jobs of the requested builder on the revision never exceed
\* times, and no request for the build builder is issued while a build job
\* on the revision is without status.
C11_NeverOverTrigger ==
    /\ RequestedJobsWithinTimes
    /\ BuildRequested => ~BuildInFlight

(***************************************************************************)
(* query_repo_name_from_buildername over a cached catalog that the service *)
(* may have outgrown.                                                      *)
(***************************************************************************)
MaxRepos == 2

RepoNames == {<<"m">>, <<"t">>, <<"m", "t">>}

QueriedBuildernames == {<<"b", "m">>, <<"t", "b">>, <<"m", "t">>, <<"b">>}

\* catalogs of distinct repository names
Catalogs ==
    {c \in SeqsUpTo(RepoNames, MaxRepos) :
        /\ c # <<>>
        /\ \A i, j \in 1..Len(c) : i # j => c[i] # c[j]}

InitRepos ==
    /\ jobs = [x \in Revs |-> <<>>]
    /\ dontbuild = {}
    /\ reachable = {}
    /\ objective = NotCalled
    /\ tj = NoCall
    /\ tr = NoRange
    /\ repositories_file \in {NoFile} \cup {[exists |-> TRUE, content |-> c] : c \in Catalogs}
    /\ branches \in Catalogs
    /\ qrn = NoQuery

QueryRepoName ==
    \E buildername \in QueriedBuildernames, clobber \in BOOLEAN :
        \E res \in {query_repo_name_from_buildername(buildername, clobber,
                                                     repositories_file, branches)} :
            /\ qrn' = [called |-> TRUE, buildername |-> buildername, clobber |-> clobber,
                       seen |-> res.seen, latest |-> branches,
                       raised |-> res.raised, ret_val |-> res.ret_val]
            /\ repositories_file' = res.file
            /\ UNCHANGED <<jobs, dontbuild, reachable, objective, tj, tr, branches>>

\* the service's catalog changes while the cached file stays
RepositoriesChange ==
    \E c \in Catalogs :
        /\ c # branches
        /\ branches' = c
        /\ UNCHANGED <<jobs, dontbuild, reachable, objective, tj, tr, repositories_file, qrn>>

NextRepos == QueryRepoName \/ RepositoriesChange

SpecRepos == InitRepos /\ [][NextRepos]_vars

HasRepo(repositories, buildername) ==
    \E i \in 1..Len(repositories) : Contains(buildername, repositories[i])

ReturnedRepoOf(repositories) ==
    /\ qrn.raised = ""
    /\ \E i \in 1..Len(repositories) : repositories[i] = qrn.ret_val
    /\ Contains(qrn.buildername, qrn.ret_val)

\* C12: a call of query_repo_name_from_buildername without clobber returns a
\* repository name of the cached catalog that occurs in the buildername; when
\* the cached catalog has none, the cache is overwritten with the latest
\* catalog, the call returns a name of the latest catalog occurring in the
\* buildername if there is one, and it raises only if there is none.
C12_ClobberAndRetry ==
    (qrn.called /\ ~qrn.clobber) =>
        IF HasRepo(qrn.seen, qrn.buildername)
        THEN ReturnedRepoOf(qrn.seen)
        ELSE /\ repositories_file = [exists |-> TRUE, content |-> qrn.latest]
             /\ HasRepo(qrn.latest, qrn.buildername) => ReturnedRepoOf(qrn.latest)
             /\ qrn.raised # "" => ~HasRepo(qrn.latest, qrn.buildername)

\* what the code does on that path: the cache is refreshed and the call raises
StaleCacheRaises ==
    (qrn.called /\ ~qrn.clobber /\ ~HasRepo(qrn.seen, qrn.buildername)) =>
        /\ repositories_file = [exists |-> TRUE, content |-> qrn.latest]
        /\ qrn.raised = "Exception"

\* with a match in the catalog that was read, the name is returned
CachedRepoReturned ==
    (qrn.called /\ HasRepo(qrn.seen, qrn.buildername)) => ReturnedRepoOf(qrn.seen)

====
